---- MODULE Spec2Model ----
(***************************************************************************)
(* A model of the serial relay engine of plupy/multipleserialports:        *)
(*   serial_relay.py : SerialTerminal (reader / writer worker) and         *)
(*                     SerialRelay (two workers joined by one queue);      *)
(*   serial_pool.py  : DirectRelayer, SerialPool, SerialDelegator.         *)
(* The two files are independent programs; the variable `program` says     *)
(* which of them a behaviour runs.                                         *)
(***************************************************************************)
EXTENDS Integers, Sequences, FiniteSets, TLC

(* ------------------------------ bounds -------------------------------- *)
\* Bytes the source device delivers in one behaviour.
MaxBytes == 3
\* Largest number of bytes one read / one data_received delivers.
MaxChunk == 2
\* Calls the controlling thread makes on one SerialRelay.
MaxCalls == 5
\* serial.Serial objects one SerialPool opens in one behaviour.
MaxEndpoints == 2

(* --------------------------- serial_relay.py -------------------------- *)
Roles == {"reader", "writer"}

\* What travels through the queue: a chunk of bytes, or the value None that
\* SerialTerminal.stop puts.
NoneItem == [kind |-> "None", bytes |-> << >>]
DataItem(bs) == [kind |-> "data", bytes |-> bs]

\* Python truth of a queue item (`if b:`): None and b"" are false.
Truthy(b) == b.kind = "data" /\ Len(b.bytes) > 0

\* The k bytes that follow the n bytes read so far: the i-th byte the source
\* delivers is written i, so that order, loss and duplication are visible.
NextBytes(n, k) == [i \in 1..k |-> n + i]

IsPrefix(s, t) == Len(s) <= Len(t) /\ \A i \in 1..Len(s) : s[i] = t[i]

VARIABLES
    program,      \* "serial_relay" | "serial_pool" | "direct_relayer"
    \* --- SerialRelay and its two SerialTerminal objects
    constructed,  \* SerialRelay.__init__ has returned
    alive,        \* SerialRelay.alive
    term,         \* term[r]: self.sr / self.sw is not None
    t_alive,      \* t_alive[r]: SerialTerminal.alive of the worker of role r
    t_thread,     \* t_thread[r]: SerialTerminal.thread is not None
    ser_open,     \* ser_open[r]: SerialTerminal.serial.isOpen()
    queue,        \* SerialRelay._queue, the one JoinableQueue
    op,           \* the SerialRelay call in progress
    pc_c,         \* position of the controlling thread inside that call
    who,          \* the worker the controlling thread is operating on
    pc_t,         \* pc_t[r]: position of the background thread of role r
    t_b,          \* t_b[r]: the local `b` of the thread of role r
    rd,           \* every byte serial.read has returned on the source
    wr,           \* every byte serial.write has been given on the destination
    calls,        \* SerialRelay calls made so far
    r_ret,        \* the last SerialRelay call that returned, and how
    stopped,      \* stop() has completed since the last setup()
    \* --- SerialPool, SerialDelegator
    pool,         \* SerialPool.pool: port -> endpoint (0: no entry)
    eps,          \* every serial.Serial object opened so far
    deleg,        \* the SerialDelegator objects
    ret,          \* the last SerialPool / SerialDelegator call and its result
    \* --- DirectRelayer
    dr_buffer,    \* DirectRelayer.buffer
    dr_relay,     \* DirectRelayer.relay is set
    dr_lost,      \* connection_lost was called
    dr_in,        \* every byte data_received was given
    dr_out,       \* every byte relay.write was given
    \* --- threads that call one SerialPool concurrently
    c_pc,         \* c_pc[t]: the statement of add / delete thread t is at
    c_port,       \* c_port[t]: its portstr
    c_ser         \* c_ser[t]: its local `ser`

relayVars == << constructed, alive, term, t_alive, t_thread, ser_open, queue, op,
                pc_c, who, pc_t, t_b, rd, wr, calls, r_ret, stopped >>
poolVars == << pool, eps, deleg, ret >>
directVars == << dr_buffer, dr_relay, dr_lost, dr_in, dr_out >>
concVars == << c_pc, c_port, c_ser >>
vars == << program, relayVars, poolVars, directVars, concVars >>

(* ----------------------- SerialRelay: the controller ------------------- *)
\* The order in which SerialRelay works through its two terminals:
\* start() takes sw then sr, stop() and teardown() take sr then sw.
FirstRole(o) == IF o = "start" THEN "writer" ELSE "reader"
LastRole(o) == IF o = "start" THEN "reader" ELSE "writer"

\* A call returns to the caller.
Return(o, v) ==
    /\ pc_c' = "idle"
    /\ op' = "none"
    /\ who' = "reader"
    /\ r_ret' = [n |-> calls, op |-> o, val |-> v]

\* The controlling thread is done with terminal `who` and goes on with the
\* next statement of the SerialRelay method `op`.
Advance ==
    IF who # LastRole(op)
    THEN /\ who' = LastRole(op)
         /\ pc_c' = IF op = "start" THEN "t_start" ELSE "t_stop"
    ELSE /\ who' = who
         /\ pc_c' = IF op = "start" THEN "r_set" ELSE "r_clear"

\* SerialTerminal.stop has returned: SerialRelay.stop goes on, while
\* SerialTerminal.teardown closes the port next.
AfterStop ==
    IF op = "stop"
    THEN Advance
    ELSE pc_c' = "t_close" /\ who' = who

\* SerialRelay.start is called.
RelayStart ==
    /\ program = "serial_relay" /\ pc_c = "idle" /\ constructed
    /\ calls < MaxCalls
    /\ calls' = calls + 1
    /\ \/ /\ alive
          /\ r_ret' = [n |-> calls + 1, op |-> "start", val |-> "noop"]
          /\ UNCHANGED << op, pc_c, who >>
       \/ /\ ~alive
          /\ op' = "start" /\ pc_c' = "t_start" /\ who' = FirstRole("start")
          /\ UNCHANGED r_ret
    /\ UNCHANGED << program, constructed, alive, term, t_alive, t_thread, ser_open,
                    queue, pc_t, t_b, rd, wr, stopped, poolVars, directVars, concVars >>

\* SerialTerminal.start: the thread object is made and alive is set ...
TerminalStartSet ==
    /\ program = "serial_relay" /\ pc_c = "t_start"
    /\ \/ /\ term[who]
          /\ t_thread' = [t_thread EXCEPT ![who] = TRUE]
          /\ t_alive' = [t_alive EXCEPT ![who] = TRUE]
          /\ pc_t' = [pc_t EXCEPT ![who] = "created"]
          /\ pc_c' = "t_run"
          /\ UNCHANGED who
       \/ /\ ~term[who]
          /\ Advance
          /\ UNCHANGED << t_thread, t_alive, pc_t >>
    /\ UNCHANGED << program, constructed, alive, term, ser_open, queue, op, t_b,
                    rd, wr, calls, r_ret, stopped, poolVars, directVars, concVars >>

\* ... and then the thread is started.
TerminalStartThread ==
    /\ program = "serial_relay" /\ pc_c = "t_run"
    /\ pc_t' = [pc_t EXCEPT ![who] = "loop"]
    /\ Advance
    /\ UNCHANGED << program, constructed, alive, term, t_alive, t_thread, ser_open,
                    queue, op, t_b, rd, wr, calls, r_ret, stopped, poolVars,
                    directVars, concVars >>

\* SerialRelay.start: self.alive.set(), the last statement.
RelayStartSet ==
    /\ program = "serial_relay" /\ pc_c = "r_set"
    /\ alive' = TRUE
    /\ Return("start", "done")
    /\ UNCHANGED << program, constructed, term, t_alive, t_thread, ser_open, queue,
                    pc_t, t_b, rd, wr, calls, stopped, poolVars, directVars, concVars >>

\* SerialRelay.stop is called.
RelayStop ==
    /\ program = "serial_relay" /\ pc_c = "idle" /\ constructed
    /\ calls < MaxCalls
    /\ calls' = calls + 1
    /\ \/ /\ ~alive
          /\ r_ret' = [n |-> calls + 1, op |-> "stop", val |-> "noop"]
          /\ UNCHANGED << op, pc_c, who >>
       \/ /\ alive
          /\ op' = "stop" /\ pc_c' = "t_stop" /\ who' = FirstRole("stop")
          /\ UNCHANGED r_ret
    /\ UNCHANGED << program, constructed, alive, term, t_alive, t_thread, ser_open,
                    queue, pc_t, t_b, rd, wr, stopped, poolVars, directVars, concVars >>

\* SerialRelay.teardown is called.
RelayTeardown ==
    /\ program = "serial_relay" /\ pc_c = "idle" /\ constructed
    /\ calls < MaxCalls
    /\ calls' = calls + 1
    /\ op' = "teardown" /\ pc_c' = "t_stop" /\ who' = FirstRole("teardown")
    /\ UNCHANGED << program, constructed, alive, term, t_alive, t_thread, ser_open,
                    queue, pc_t, t_b, rd, wr, r_ret, stopped, poolVars, directVars, concVars >>

\* SerialRelay.setup is called: by __init__ on a relay not yet constructed,
\* by the user afterwards. It begins with teardown().
RelaySetup ==
    /\ program = "serial_relay" /\ pc_c = "idle"
    /\ constructed \/ calls = 0
    /\ calls < MaxCalls
    /\ calls' = calls + 1
    /\ op' = "setup" /\ pc_c' = "t_stop" /\ who' = FirstRole("setup")
    /\ stopped' = FALSE
    /\ UNCHANGED << program, constructed, alive, term, t_alive, t_thread, ser_open,
                    queue, pc_t, t_b, rd, wr, r_ret, poolVars, directVars, concVars >>

\* `if self.sr: self.sr.stop()` and SerialTerminal.stop up to alive.clear().
TerminalStopClearAlways ==
    /\ program = "serial_relay" /\ pc_c = "t_stop"
    /\ \/ /\ term[who]
          /\ t_alive' = [t_alive EXCEPT ![who] = FALSE]
          /\ pc_c' = "t_put"
          /\ UNCHANGED who
       \/ /\ ~term[who]
          /\ Advance
          /\ UNCHANGED t_alive
    /\ UNCHANGED << program, constructed, alive, term, t_thread, ser_open, queue, op,
                    pc_t, t_b, rd, wr, calls, r_ret, stopped, poolVars, directVars, concVars >>

TerminalStopClear ==
    /\ program = "serial_relay" /\ pc_c = "t_stop"
    /\ \/ /\ term[who] /\ t_thread[who]
          /\ t_alive' = [t_alive EXCEPT ![who] = FALSE]
          /\ pc_c' = "t_put"
          /\ UNCHANGED who
       \/ /\ term[who] /\ ~t_thread[who]
          /\ AfterStop
          /\ UNCHANGED t_alive
       \/ /\ ~term[who]
          /\ Advance
          /\ UNCHANGED t_alive
    /\ UNCHANGED << program, constructed, alive, term, t_thread, ser_open, queue, op,
                    pc_t, t_b, rd, wr, calls, r_ret, stopped, poolVars, directVars, concVars >>

\* SerialTerminal.stop: `if self.queue: self.queue.put(None)`. The relay gives
\* both terminals its queue, so both the reader's and the writer's stop put.
TerminalStopNoPut ==
    /\ program = "serial_relay" /\ pc_c = "t_put"
    /\ pc_c' = "t_join"
    /\ UNCHANGED << program, constructed, alive, term, t_alive, t_thread, ser_open,
                    queue, op, who, pc_t, t_b, rd, wr, calls, r_ret, stopped,
                    poolVars, directVars, concVars >>

TerminalStopPut ==
    /\ program = "serial_relay" /\ pc_c = "t_put"
    /\ queue' = Append(queue, NoneItem)
    /\ pc_c' = "t_join"
    /\ UNCHANGED << program, constructed, alive, term, t_alive, t_thread, ser_open,
                    op, who, pc_t, t_b, rd, wr, calls, r_ret, stopped, poolVars,
                    directVars, concVars >>

\* SerialTerminal.stop: self.thread.join() returns once the thread has left
\* its loop or has ended with an exception; then self.thread = None.
TerminalStopJoin ==
    /\ program = "serial_relay" /\ pc_c = "t_join"
    /\ pc_t[who] \in {"exit", "raised"}
    /\ pc_t' = [pc_t EXCEPT ![who] = "none"]
    /\ t_thread' = [t_thread EXCEPT ![who] = FALSE]
    /\ AfterStop
    /\ UNCHANGED << program, constructed, alive, term, t_alive, ser_open, queue, op,
                    t_b, rd, wr, calls, r_ret, stopped, poolVars, directVars, concVars >>

\* SerialTerminal.teardown after stop(): close the port if it is open.
TerminalClose ==
    /\ program = "serial_relay" /\ pc_c = "t_close"
    /\ ser_open' = [ser_open EXCEPT ![who] = FALSE]
    /\ Advance
    /\ UNCHANGED << program, constructed, alive, term, t_alive, t_thread, queue, op,
                    pc_t, t_b, rd, wr, calls, r_ret, stopped, poolVars, directVars, concVars >>

\* self.alive.clear(): the last statement of SerialRelay.stop; in teardown it
\* is followed by self.sr = None and self.sw = None, and setup goes on to
\* build the two terminals, the writer first.
RelayClear ==
    /\ program = "serial_relay" /\ pc_c = "r_clear"
    /\ alive' = FALSE
    /\ \/ /\ op = "stop"
          /\ stopped' = TRUE
          /\ Return("stop", "done")
          /\ UNCHANGED term
       \/ /\ op = "teardown"
          /\ term' = [r \in Roles |-> FALSE]
          /\ Return("teardown", "done")
          /\ UNCHANGED stopped
       \/ /\ op = "setup"
          /\ term' = [r \in Roles |-> FALSE]
          /\ pc_c' = "t_open" /\ who' = "writer"
          /\ UNCHANGED << op, r_ret, stopped >>
    /\ UNCHANGED << program, constructed, t_alive, t_thread, ser_open, queue, pc_t,
                    t_b, rd, wr, calls, poolVars, directVars, concVars >>

\* SerialRelay.setup: self.sw = SerialTerminal(...), then self.sr = ...
\* SerialTerminal.__init__ runs SerialTerminal.setup, whose serial.open()
\* either opens the port or raises; the exception goes up to the caller of
\* SerialRelay.setup, and the assignment to self.sw / self.sr does not happen.
TerminalOpen ==
    /\ program = "serial_relay" /\ pc_c = "t_open"
    /\ \/ /\ term' = [term EXCEPT ![who] = TRUE]
          /\ ser_open' = [ser_open EXCEPT ![who] = TRUE]
          /\ t_alive' = [t_alive EXCEPT ![who] = FALSE]
          /\ IF who = "writer"
             THEN /\ who' = "reader"
                  /\ UNCHANGED << pc_c, op, r_ret, constructed >>
             ELSE /\ constructed' = TRUE
                  /\ Return("setup", "done")
       \/ /\ r_ret' = [n |-> calls, op |-> "setup", val |-> "raised"]
          /\ pc_c' = IF constructed THEN "idle" ELSE "dead"
          /\ op' = "none"
          /\ who' = "reader"
          /\ UNCHANGED << term, ser_open, t_alive, constructed >>
    /\ UNCHANGED << program, alive, t_thread, queue, pc_t, t_b, rd, wr, calls,
                    stopped, poolVars, directVars, concVars >>

(* ------------------- SerialTerminal: the two threads ------------------- *)
\* reader_thread: `while self.alive.isSet():`
ReaderLoop ==
    /\ program = "serial_relay" /\ pc_t["reader"] = "loop"
    /\ pc_t' = [pc_t EXCEPT !["reader"] = IF t_alive["reader"] THEN "read" ELSE "exit"]
    /\ UNCHANGED << program, constructed, alive, term, t_alive, t_thread, ser_open,
                    queue, op, pc_c, who, t_b, rd, wr, calls, r_ret, stopped,
                    poolVars, directVars, concVars >>

\* reader_thread: b = self.serial.read(self.serial.in_waiting or 1) returns
\* between 1 and in_waiting bytes, or nothing when the timeout ends the wait,
\* or it raises (the device is gone): nothing catches the exception and the
\* thread ends where it is.
ReaderRead ==
    /\ program = "serial_relay" /\ pc_t["reader"] = "read"
    /\ \/ /\ pc_t' = [pc_t EXCEPT !["reader"] = "loop"]
          /\ UNCHANGED << rd, t_b >>
       \/ /\ pc_t' = [pc_t EXCEPT !["reader"] = "raised"]
          /\ UNCHANGED << rd, t_b >>
       \/ \E k \in 1..MaxChunk :
             /\ Len(rd) + k <= MaxBytes
             /\ rd' = rd \o NextBytes(Len(rd), k)
             /\ t_b' = [t_b EXCEPT !["reader"] = NextBytes(Len(rd), k)]
             /\ pc_t' = [pc_t EXCEPT !["reader"] = "put"]
    /\ UNCHANGED << program, constructed, alive, term, t_alive, t_thread, ser_open,
                    queue, op, pc_c, who, wr, calls, r_ret, stopped, poolVars,
                    directVars, concVars >>

\* reader_thread: `if b: if self.queue: self.queue.put(b)`
ReaderPut ==
    /\ program = "serial_relay" /\ pc_t["reader"] = "put"
    /\ queue' = Append(queue, DataItem(t_b["reader"]))
    /\ t_b' = [t_b EXCEPT !["reader"] = << >>]
    /\ pc_t' = [pc_t EXCEPT !["reader"] = "loop"]
    /\ UNCHANGED << program, constructed, alive, term, t_alive, t_thread, ser_open,
                    op, pc_c, who, rd, wr, calls, r_ret, stopped, poolVars,
                    directVars, concVars >>

\* writer_thread: `while self.alive.isSet():`
WriterLoop ==
    /\ program = "serial_relay" /\ pc_t["writer"] = "loop"
    /\ pc_t' = [pc_t EXCEPT !["writer"] = IF t_alive["writer"] THEN "get" ELSE "exit"]
    /\ UNCHANGED << program, constructed, alive, term, t_alive, t_thread, ser_open,
                    queue, op, pc_c, who, t_b, rd, wr, calls, r_ret, stopped,
                    poolVars, directVars, concVars >>

\* writer_thread: b = self.queue.get() blocks while the queue is empty;
\* `if b:` sends a chunk on to the write and None back to the loop test.
WriterGetLifo ==
    /\ program = "serial_relay" /\ pc_t["writer"] = "get"
    /\ queue # << >>
    /\ queue' = SubSeq(queue, 1, Len(queue) - 1)
    /\ \/ /\ Truthy(queue[Len(queue)])
          /\ t_b' = [t_b EXCEPT !["writer"] = queue[Len(queue)].bytes]
          /\ pc_t' = [pc_t EXCEPT !["writer"] = "write"]
       \/ /\ ~Truthy(queue[Len(queue)])
          /\ pc_t' = [pc_t EXCEPT !["writer"] = "loop"]
          /\ UNCHANGED t_b
    /\ UNCHANGED << program, constructed, alive, term, t_alive, t_thread, ser_open,
                    op, pc_c, who, rd, wr, calls, r_ret, stopped, poolVars,
                    directVars, concVars >>

WriterGetForwardsNone ==
    /\ program = "serial_relay" /\ pc_t["writer"] = "get"
    /\ queue # << >>
    /\ queue' = Tail(queue)
    /\ t_b' = [t_b EXCEPT !["writer"] = Head(queue).bytes]
    /\ pc_t' = [pc_t EXCEPT !["writer"] = "write"]
    /\ UNCHANGED << program, constructed, alive, term, t_alive, t_thread, ser_open,
                    op, pc_c, who, rd, wr, calls, r_ret, stopped, poolVars,
                    directVars, concVars >>

WriterGet ==
    /\ program = "serial_relay" /\ pc_t["writer"] = "get"
    /\ queue # << >>
    /\ queue' = Tail(queue)
    /\ \/ /\ Truthy(Head(queue))
          /\ t_b' = [t_b EXCEPT !["writer"] = Head(queue).bytes]
          /\ pc_t' = [pc_t EXCEPT !["writer"] = "write"]
       \/ /\ ~Truthy(Head(queue))
          /\ pc_t' = [pc_t EXCEPT !["writer"] = "loop"]
          /\ UNCHANGED t_b
    /\ UNCHANGED << program, constructed, alive, term, t_alive, t_thread, ser_open,
                    op, pc_c, who, rd, wr, calls, r_ret, stopped, poolVars,
                    directVars, concVars >>

\* writer_thread: self.serial.write(b); self.queue.task_done(). The write
\* is given b and returns, or it raises, and then the thread ends where it
\* is (wr records what write was given, not what the device did with it).
WriterWrite ==
    /\ program = "serial_relay" /\ pc_t["writer"] = "write"
    /\ wr' = wr \o t_b["writer"]
    /\ t_b' = [t_b EXCEPT !["writer"] = << >>]
    /\ \/ pc_t' = [pc_t EXCEPT !["writer"] = "loop"]
       \/ pc_t' = [pc_t EXCEPT !["writer"] = "raised"]
    /\ UNCHANGED << program, constructed, alive, term, t_alive, t_thread, ser_open,
                    queue, op, pc_c, who, rd, calls, r_ret, stopped, poolVars,
                    directVars, concVars >>

ControllerCall == RelayStart \/ RelayStop \/ RelayTeardown \/ RelaySetup
ControllerStep ==
    \/ TerminalStartSet \/ TerminalStartThread \/ RelayStartSet
    \/ TerminalStopClear \/ TerminalStopPut \/ TerminalStopJoin
    \/ TerminalClose \/ RelayClear \/ TerminalOpen
ReaderStep == ReaderLoop \/ ReaderRead \/ ReaderPut
WriterStep == WriterLoop \/ WriterGet \/ WriterWrite
RelayNext == ControllerCall \/ ControllerStep \/ ReaderStep \/ WriterStep

RelayInit ==
    /\ constructed = FALSE
    /\ alive = FALSE
    /\ term = [r \in Roles |-> FALSE]
    /\ t_alive = [r \in Roles |-> FALSE]
    /\ t_thread = [r \in Roles |-> FALSE]
    /\ ser_open = [r \in Roles |-> FALSE]
    /\ queue = << >>
    /\ op = "none"
    /\ pc_c = "idle"
    /\ who = "reader"
    /\ pc_t = [r \in Roles |-> "none"]
    /\ t_b = [r \in Roles |-> << >>]
    /\ rd = << >>
    /\ wr = << >>
    /\ calls = 0
    /\ r_ret = [n |-> 0, op |-> "none", val |-> "none"]
    /\ stopped = FALSE

(* --------------------------- serial_pool.py --------------------------- *)
\* Port names. serial_pool.py is Python 2: a port name is a str ('A') or a
\* unicode (u'A', what json.loads gives); the two are equal as dict keys,
\* and isinstance(u'A', str) is False.
Names == {"A", "B"}
PortTypes == {"str", "unicode"}
PortStr(n, t) == [name |-> n, type |-> t]
Ports == {PortStr(n, t) : n \in Names, t \in PortTypes}
NoPort == PortStr("", "str")
Bauds == {9600, 115200}
Delegators == {1, 2}

\* What a caller hands to SerialPool.add: a dict with 'port' and the line
\* settings, a dict without 'port', or something that is no dict (None).
PortCfg(p, b) == [kind |-> "cfg", port |-> p, baud |-> b]
NoPortCfg == [kind |-> "noport", port |-> NoPort, baud |-> 0]
NotADict == [kind |-> "nodict", port |-> NoPort, baud |-> 0]
Cfgs == {PortCfg(p, b) : p \in Ports, b \in Bauds} \cup {NoPortCfg, NotADict}

\* How ser.open() ends in SerialPool.add: it opens the device, or it raises
\* SerialException and serial_for_url opens it, or both raise.
OpenOutcomes == {"open", "url", "fail"}

\* add() gets as far as ser.open() only for a dict whose port has no entry.
AddOutcomes(pl, cfg) ==
    IF cfg.kind = "cfg" /\ pl[cfg.port.name] = 0 THEN OpenOutcomes ELSE {"none"}

\* The settings SerialDelegator.setup is tried with under 'ser_src' and
\* 'ser_dest': a dict for port 'A', for port 'B' or for port u'B', or no
\* dict.
SetupPorts == {PortStr("A", "str"), PortStr("B", "str"), PortStr("B", "unicode")}
SetupCfgs == {PortCfg(p, 9600) : p \in SetupPorts} \cup {NotADict}

\* SerialDelegator.setup's settings['d_type']: missing, 'direct', another.
DTypes == {"None", "direct", "other"}

EmptyPool == [n \in Names |-> 0]

\* The result of a SerialPool call: the table and the objects it leaves, the
\* value it returns (an endpoint, 0 for None; 1 / 0 for True / False) and
\* the return statement it left through.
Result(pl, es, v, h) == [pool |-> pl, eps |-> es, val |-> v, how |-> h]

\* The table and objects after a new serial.Serial for port p is opened and
\* stored (`self.pool[portstr] = ser`).
Opened(pl, es, p) ==
    Result([pl EXCEPT ![p.name] = Len(es) + 1],
           Append(es, [port |-> p, open |-> TRUE]),
           Len(es) + 1, "opened")

\* SerialPool.add(one_ser) on table pl and objects es.
PoolAddAlwaysOpens(pl, es, cfg, outcome) ==
    IF cfg.kind # "cfg"
    THEN Result(pl, es, 0, "invalid")
    ELSE IF outcome = "fail"
    THEN Result(pl, es, 0, "failed")
    ELSE Opened(pl, es, cfg.port)

PoolAdd(pl, es, cfg, outcome) ==
    IF cfg.kind # "cfg"
    THEN Result(pl, es, 0, "invalid")
    ELSE IF pl[cfg.port.name] # 0
    THEN IF es[pl[cfg.port.name]].open
         THEN Result(pl, es, pl[cfg.port.name], "existing")
         ELSE Result([pl EXCEPT ![cfg.port.name] = 0], es, 0, "evicted")
    ELSE IF outcome = "fail"
    THEN Result(pl, es, 0, "failed")
    ELSE Opened(pl, es, cfg.port)

\* SerialPool.delete(portstr)
PoolDelete(pl, es, p) ==
    IF p.type # "str"
    THEN Result(pl, es, 0, "notstr")
    ELSE IF pl[p.name] = 0
    THEN Result(pl, es, 0, "absent")
    ELSE Result([pl EXCEPT ![p.name] = 0], [es EXCEPT ![pl[p.name]].open = FALSE],
                1, "deleted")

\* SerialPool.delete_all(). It returns nothing: val keeps the number of
\* entries the table held when it was called.
PoolDeleteAllOnlyClears(pl, es) ==
    Result(EmptyPool, es, Cardinality({n \in Names : pl[n] # 0}), "cleared")

PoolDeleteAll(pl, es) ==
    Result(EmptyPool,
           [i \in 1..Len(es) |->
               IF \E n \in Names : pl[n] = i
               THEN [es[i] EXCEPT !.open = FALSE]
               ELSE es[i]],
           Cardinality({n \in Names : pl[n] # 0}), "cleared")

\* SerialPool.get(portstr)
PoolGetReturnsStale(pl, es, p) ==
    IF p.type # "str"
    THEN Result(pl, es, 0, "notstr")
    ELSE IF pl[p.name] = 0
    THEN Result(pl, es, 0, "absent")
    ELSE Result(pl, es, pl[p.name], "existing")

PoolGet(pl, es, p) ==
    IF p.type # "str"
    THEN Result(pl, es, 0, "notstr")
    ELSE IF pl[p.name] = 0
    THEN Result(pl, es, 0, "absent")
    ELSE IF es[pl[p.name]].open
    THEN Result(pl, es, pl[p.name], "existing")
    ELSE Result([pl EXCEPT ![p.name] = 0], es, 0, "evicted")

\* A SerialDelegator just constructed: sr, sw and tr are None. tr_ser is the
\* port the ReaderThread in tr was built on.
NewDelegator == [sr |-> 0, sw |-> 0, tr |-> "None", tr_ser |-> 0]

\* ReaderThread.close() of serial_threaded: the thread is stopped; `closes`
\* says whether it also closes the port it reads.
ReaderThreadClose(es, dg, closes) ==
    IF dg.tr # "None" /\ closes
    THEN [es EXCEPT ![dg.tr_ser].open = FALSE]
    ELSE es

\* Whether close() closes the port is drawn only where a thread is closed.
CloseOutcomes(dg) == IF dg.tr # "None" THEN BOOLEAN ELSE {FALSE}

\* SerialDelegator.teardown() of the delegator dg.
DelegTeardown(pl, es, dg, closes) ==
    LET es1 == ReaderThreadClose(es, dg, closes)
        d1 == IF dg.sr # 0 THEN PoolDelete(pl, es1, es1[dg.sr].port)
                           ELSE Result(pl, es1, 0, "none")
        d2 == IF dg.sw # 0 THEN PoolDelete(d1.pool, d1.eps, d1.eps[dg.sw].port)
                           ELSE Result(d1.pool, d1.eps, 0, "none")
    IN  [pool |-> d2.pool, eps |-> d2.eps, dg |-> NewDelegator]

\* SerialDelegator.setup(settings) of the delegator dg, for settings that
\* are a dict; val is 1 for self, 0 for None.
DelegSetupAnyMode(pl, es, dg, dtype, src, dest, o1, o2, closes) ==
    LET a1 == PoolAdd(pl, es, src, o1)
        a2 == PoolAdd(a1.pool, a1.eps, dest, o2)
    IN  IF a1.val = 0
        THEN LET t == DelegTeardown(a1.pool, a1.eps, [dg EXCEPT !.sr = 0], closes)
             IN  [pool |-> t.pool, eps |-> t.eps, dg |-> t.dg, val |-> 0,
                  how |-> "no_sr"]
        ELSE IF a2.val = 0
        THEN LET t == DelegTeardown(a2.pool, a2.eps,
                                    [dg EXCEPT !.sr = a1.val, !.sw = 0], closes)
             IN  [pool |-> t.pool, eps |-> t.eps, dg |-> t.dg, val |-> 0,
                  how |-> "no_sw"]
        ELSE [pool |-> a2.pool, eps |-> a2.eps,
              dg |-> [sr |-> a1.val, sw |-> a2.val, tr |-> "alive", tr_ser |-> a1.val],
              val |-> 1, how |-> "running"]

DelegSetup(pl, es, dg, dtype, src, dest, o1, o2, closes) ==
    LET a1 == PoolAdd(pl, es, src, o1)
        a2 == PoolAdd(a1.pool, a1.eps, dest, o2)
    IN  IF a1.val = 0
        THEN LET t == DelegTeardown(a1.pool, a1.eps, [dg EXCEPT !.sr = 0], closes)
             IN  [pool |-> t.pool, eps |-> t.eps, dg |-> t.dg, val |-> 0,
                  how |-> "no_sr"]
        ELSE IF a2.val = 0
        THEN LET t == DelegTeardown(a2.pool, a2.eps,
                                    [dg EXCEPT !.sr = a1.val, !.sw = 0], closes)
             IN  [pool |-> t.pool, eps |-> t.eps, dg |-> t.dg, val |-> 0,
                  how |-> "no_sw"]
        ELSE IF dtype \in {"None", "direct"}
        THEN [pool |-> a2.pool, eps |-> a2.eps,
              dg |-> [sr |-> a1.val, sw |-> a2.val, tr |-> "alive", tr_ser |-> a1.val],
              val |-> 1, how |-> "running"]
        ELSE [pool |-> a2.pool, eps |-> a2.eps,
              dg |-> [dg EXCEPT !.sr = a1.val, !.sw = a2.val],
              val |-> 0, how |-> "mode"]

\* SerialDelegator.is_running()
IsRunning(dg) == IF dg.tr # "None" THEN dg.tr = "alive" ELSE FALSE

\* The record of a call that has returned; seq tells one call from the next,
\* mode is the d_type a setup was called with.
Called(o, p, d, v, h) ==
    [seq |-> 1 - ret.seq, op |-> o, port |-> p, d |-> d, val |-> v, how |-> h,
     mode |-> "none"]

Add(cfg, outcome) ==
    /\ program = "serial_pool"
    /\ LET r == PoolAdd(pool, eps, cfg, outcome)
       IN  /\ Len(r.eps) <= MaxEndpoints
           /\ pool' = r.pool
           /\ eps' = r.eps
           /\ ret' = Called("add", cfg.port, 0, r.val, r.how)
    /\ UNCHANGED << program, deleg, relayVars, directVars, concVars >>

Delete(p) ==
    /\ program = "serial_pool"
    /\ LET r == PoolDelete(pool, eps, p)
       IN  /\ pool' = r.pool
           /\ eps' = r.eps
           /\ ret' = Called("delete", p, 0, r.val, r.how)
    /\ UNCHANGED << program, deleg, relayVars, directVars, concVars >>

DeleteAll ==
    /\ program = "serial_pool"
    /\ LET r == PoolDeleteAll(pool, eps)
       IN  /\ pool' = r.pool
           /\ eps' = r.eps
           /\ ret' = Called("delete_all", NoPort, 0, r.val, r.how)
    /\ UNCHANGED << program, deleg, relayVars, directVars, concVars >>

Get(p) ==
    /\ program = "serial_pool"
    /\ LET r == PoolGet(pool, eps, p)
       IN  /\ pool' = r.pool
           /\ eps' = r.eps
           /\ ret' = Called("get", p, 0, r.val, r.how)
    /\ UNCHANGED << program, deleg, relayVars, directVars, concVars >>

\* Whoever holds an endpoint that add() returned closes it without telling
\* the pool.
OutOfBandClose(e) ==
    /\ program = "serial_pool"
    /\ e \in 1..Len(eps) /\ eps[e].open
    /\ eps' = [eps EXCEPT ![e].open = FALSE]
    /\ UNCHANGED << program, pool, deleg, ret, relayVars, directVars, concVars >>

Setup(d, dtype, src, dest, o1, o2, closes) ==
    /\ program = "serial_pool"
    /\ LET r == DelegSetup(pool, eps, deleg[d], dtype, src, dest, o1, o2, closes)
       IN  /\ Len(r.eps) <= MaxEndpoints
           /\ pool' = r.pool
           /\ eps' = r.eps
           /\ deleg' = [deleg EXCEPT ![d] = r.dg]
           /\ ret' = [Called("setup", NoPort, d, r.val, r.how) EXCEPT !.mode = dtype]
    /\ UNCHANGED << program, relayVars, directVars, concVars >>

\* setup: `if not isinstance(settings, dict): return None`
SetupNoDict(d) ==
    /\ program = "serial_pool"
    /\ ret' = Called("setup", NoPort, d, 0, "nodict")
    /\ UNCHANGED << program, pool, eps, deleg, relayVars, directVars, concVars >>

\* how tells a teardown of a pair that holds both endpoints and its thread
\* from one of a pair that holds less.
Teardown(d, closes) ==
    /\ program = "serial_pool"
    /\ LET r == DelegTeardown(pool, eps, deleg[d], closes)
       IN  /\ pool' = r.pool
           /\ eps' = r.eps
           /\ deleg' = [deleg EXCEPT ![d] = r.dg]
           /\ ret' = Called("teardown", NoPort, d, 0,
                            IF deleg[d].sr # 0 /\ deleg[d].sw # 0 /\ deleg[d].tr # "None"
                            THEN "pair" ELSE "partial")
    /\ UNCHANGED << program, relayVars, directVars, concVars >>

\* Calls on the SerialPool itself.
PoolNext ==
    \/ \E cfg \in Cfgs : \E o \in AddOutcomes(pool, cfg) : Add(cfg, o)
    \/ \E p \in Ports : Delete(p)
    \/ DeleteAll
    \/ \E p \in Ports : Get(p)
    \/ \E e \in 1..MaxEndpoints : OutOfBandClose(e)

\* The delegators that act under DelegSpec.
DelegSpecDelegators == {1}

\* Calls on a SerialDelegator and what happens to the ports it holds.
DelegNext ==
    \/ \E d \in DelegSpecDelegators, dtype \in DTypes, src \in SetupCfgs, dest \in SetupCfgs :
          \E o1 \in AddOutcomes(pool, src), closes \in CloseOutcomes(deleg[d]) :
             \E o2 \in AddOutcomes(PoolAdd(pool, eps, src, o1).pool, dest) :
                Setup(d, dtype, src, dest, o1, o2, closes)
    \/ \E d \in DelegSpecDelegators : SetupNoDict(d)
    \/ \E d \in DelegSpecDelegators : \E closes \in CloseOutcomes(deleg[d]) :
          Teardown(d, closes)
    \/ \E e \in 1..MaxEndpoints : OutOfBandClose(e)

\* Two SerialDelegators on one SerialPool, set up on the str ports 'A' and
\* 'B' (or with no dict for a port) and torn down in any order.
ShareCfgs == {PortCfg(PortStr(n, "str"), 9600) : n \in Names} \cup {NotADict}

ShareNext ==
    \/ \E d \in Delegators, dtype \in DTypes, src \in ShareCfgs, dest \in ShareCfgs :
          \E o1 \in AddOutcomes(pool, src), closes \in CloseOutcomes(deleg[d]) :
             \E o2 \in AddOutcomes(PoolAdd(pool, eps, src, o1).pool, dest) :
                Setup(d, dtype, src, dest, o1, o2, closes)
    \/ \E d \in Delegators : \E closes \in CloseOutcomes(deleg[d]) :
          Teardown(d, closes)

PoolInit ==
    /\ pool = EmptyPool
    /\ eps = << >>
    /\ deleg = [d \in Delegators |-> NewDelegator]
    /\ ret = [seq |-> 0, op |-> "none", port |-> NoPort, d |-> 0, val |-> 0,
              how |-> "none", mode |-> "none"]

(* --------------- SerialPool called by concurrent threads -------------- *)
\* SerialPool has no lock: a thread that runs add or delete can be
\* pre-empted between any two statements that touch self.pool or a port.
\* The threads pass str port names; c_port holds the name.
Threads == {1, 2}

\* add: `if portstr in self.pool.keys():`
ConcAddTest(t, p) ==
    /\ program = "serial_pool" /\ c_pc[t] = "idle"
    /\ c_port' = [c_port EXCEPT ![t] = p]
    /\ c_pc' = [c_pc EXCEPT ![t] = IF pool[p] # 0 THEN "add_get" ELSE "add_open"]
    /\ UNCHANGED << program, c_ser, relayVars, poolVars, directVars >>

\* add: `ser = self.pool[portstr]`, a KeyError once another thread has
\* removed the entry.
ConcAddGet(t) ==
    /\ program = "serial_pool" /\ c_pc[t] = "add_get"
    /\ \/ /\ pool[c_port[t]] # 0
          /\ c_ser' = [c_ser EXCEPT ![t] = pool[c_port[t]]]
          /\ c_pc' = [c_pc EXCEPT ![t] = "add_isopen"]
       \/ /\ pool[c_port[t]] = 0
          /\ c_pc' = [c_pc EXCEPT ![t] = "idle"]
          /\ UNCHANGED c_ser
    /\ UNCHANGED << program, c_port, relayVars, poolVars, directVars >>

\* add: `if ser and ser.isOpen():`
ConcAddIsOpen(t) ==
    /\ program = "serial_pool" /\ c_pc[t] = "add_isopen"
    /\ c_pc' = [c_pc EXCEPT ![t] = IF eps[c_ser[t]].open THEN "add_return" ELSE "add_evict"]
    /\ UNCHANGED << program, c_port, c_ser, relayVars, poolVars, directVars >>

\* add: `return self.pool[portstr]`
ConcAddReturn(t) ==
    /\ program = "serial_pool" /\ c_pc[t] = "add_return"
    /\ c_pc' = [c_pc EXCEPT ![t] = "idle"]
    /\ c_ser' = [c_ser EXCEPT ![t] = 0]
    /\ UNCHANGED << program, c_port, relayVars, poolVars, directVars >>

\* add: `if ser: del self.pool[portstr]` and `return None`; the del removes
\* whatever the table holds for the port by now, and raises KeyError when it
\* holds nothing.
ConcAddEvict(t) ==
    /\ program = "serial_pool" /\ c_pc[t] = "add_evict"
    /\ pool' = [pool EXCEPT ![c_port[t]] = 0]
    /\ c_pc' = [c_pc EXCEPT ![t] = "idle"]
    /\ c_ser' = [c_ser EXCEPT ![t] = 0]
    /\ UNCHANGED << program, c_port, eps, deleg, ret, relayVars, directVars >>

\* add: `ser = serial.Serial()` ... `ser.open()`, with the serial_for_url
\* fallback; `return None` when both raise.
ConcAddOpen(t, outcome) ==
    /\ program = "serial_pool" /\ c_pc[t] = "add_open"
    /\ \/ /\ outcome # "fail"
          /\ Len(eps) < MaxEndpoints
          /\ eps' = Append(eps, [port |-> PortStr(c_port[t], "str"), open |-> TRUE])
          /\ c_ser' = [c_ser EXCEPT ![t] = Len(eps) + 1]
          /\ c_pc' = [c_pc EXCEPT ![t] = "add_store"]
       \/ /\ outcome = "fail"
          /\ c_pc' = [c_pc EXCEPT ![t] = "idle"]
          /\ UNCHANGED << eps, c_ser >>
    /\ UNCHANGED << program, c_port, pool, deleg, ret, relayVars, directVars >>

\* add: `self.pool[portstr] = ser` and `return ser`
ConcAddStore(t) ==
    /\ program = "serial_pool" /\ c_pc[t] = "add_store"
    /\ pool' = [pool EXCEPT ![c_port[t]] = c_ser[t]]
    /\ c_pc' = [c_pc EXCEPT ![t] = "idle"]
    /\ c_ser' = [c_ser EXCEPT ![t] = 0]
    /\ UNCHANGED << program, c_port, eps, deleg, ret, relayVars, directVars >>

\* delete: `if not portstr in self.pool.keys(): return False`
ConcDeleteTest(t, p) ==
    /\ program = "serial_pool" /\ c_pc[t] = "idle"
    /\ c_port' = [c_port EXCEPT ![t] = p]
    /\ c_pc' = [c_pc EXCEPT ![t] = IF pool[p] # 0 THEN "del_get" ELSE "idle"]
    /\ UNCHANGED << program, c_ser, relayVars, poolVars, directVars >>

\* delete: `ser = self.pool[portstr]`, a KeyError once the entry is gone.
ConcDeleteGet(t) ==
    /\ program = "serial_pool" /\ c_pc[t] = "del_get"
    /\ \/ /\ pool[c_port[t]] # 0
          /\ c_ser' = [c_ser EXCEPT ![t] = pool[c_port[t]]]
          /\ c_pc' = [c_pc EXCEPT ![t] = "del_close"]
       \/ /\ pool[c_port[t]] = 0
          /\ c_pc' = [c_pc EXCEPT ![t] = "idle"]
          /\ UNCHANGED c_ser
    /\ UNCHANGED << program, c_port, relayVars, poolVars, directVars >>

\* delete: `if ser.isOpen(): ser.close()`
ConcDeleteClose(t) ==
    /\ program = "serial_pool" /\ c_pc[t] = "del_close"
    /\ eps' = [eps EXCEPT ![c_ser[t]].open = FALSE]
    /\ c_pc' = [c_pc EXCEPT ![t] = "del_del"]
    /\ UNCHANGED << program, c_port, c_ser, pool, deleg, ret, relayVars, directVars >>

\* delete: `del self.pool[portstr]` and `return True`; KeyError when the
\* entry is gone.
ConcDeleteDel(t) ==
    /\ program = "serial_pool" /\ c_pc[t] = "del_del"
    /\ pool' = [pool EXCEPT ![c_port[t]] = 0]
    /\ c_pc' = [c_pc EXCEPT ![t] = "idle"]
    /\ c_ser' = [c_ser EXCEPT ![t] = 0]
    /\ UNCHANGED << program, c_port, eps, deleg, ret, relayVars, directVars >>

ConcNext ==
    \E t \in Threads :
       \/ \E n \in Names : ConcAddTest(t, n)
       \/ ConcAddGet(t)
       \/ ConcAddIsOpen(t)
       \/ ConcAddReturn(t)
       \/ ConcAddEvict(t)
       \/ \E o \in OpenOutcomes : ConcAddOpen(t, o)
       \/ ConcAddStore(t)
       \/ \E n \in Names : ConcDeleteTest(t, n)
       \/ ConcDeleteGet(t)
       \/ ConcDeleteClose(t)
       \/ ConcDeleteDel(t)

ConcInit ==
    /\ c_pc = [t \in Threads |-> "idle"]
    /\ c_port = [t \in Threads |-> "A"]
    /\ c_ser = [t \in Threads |-> 0]

(* ----------------------------- DirectRelayer -------------------------- *)
\* DirectRelayer.data_received(data): what it leaves in the buffer and what
\* it hands to relay.write.
DataReceived(buf, relay, data) ==
    IF relay
    THEN [buffer |-> << >>, written |-> buf \o data]
    ELSE [buffer |-> buf \o data, written |-> << >>]

\* The reader thread hands the next k bytes it read to data_received.
DirectDataReceived ==
    /\ program = "direct_relayer" /\ ~dr_lost
    /\ \E k \in 1..MaxChunk :
          /\ Len(dr_in) + k <= MaxBytes
          /\ LET r == DataReceived(dr_buffer, dr_relay, NextBytes(Len(dr_in), k))
             IN  /\ dr_buffer' = r.buffer
                 /\ dr_out' = dr_out \o r.written
                 /\ dr_in' = dr_in \o NextBytes(Len(dr_in), k)
    /\ UNCHANGED << program, dr_relay, dr_lost, relayVars, poolVars, concVars >>

\* DirectRelayer.set_relay(relay), with a destination or with None.
DirectSetRelay ==
    /\ program = "direct_relayer" /\ ~dr_lost
    /\ dr_relay' = ~dr_relay
    /\ UNCHANGED << program, dr_buffer, dr_lost, dr_in, dr_out, relayVars, poolVars, concVars >>

\* DirectRelayer.connection_lost(exc): the reader thread has ended and drops
\* the protocol object.
DirectConnectionLost ==
    /\ program = "direct_relayer" /\ ~dr_lost
    /\ dr_lost' = TRUE
    /\ dr_buffer' = << >>
    /\ UNCHANGED << program, dr_relay, dr_in, dr_out, relayVars, poolVars, concVars >>

DirectNext == DirectDataReceived \/ DirectSetRelay \/ DirectConnectionLost

\* DirectRelayer(params): params is the destination, or None.
DirectInit ==
    /\ dr_buffer = << >>
    /\ dr_relay \in IF program = "direct_relayer" THEN BOOLEAN ELSE {FALSE}
    /\ dr_lost = FALSE
    /\ dr_in = << >>
    /\ dr_out = << >>

(* --------------------------- specifications --------------------------- *)
\* serial_relay.py and the DirectRelayer of serial_pool.py: the two ways
\* bytes are forwarded.
Init ==
    /\ program \in {"serial_relay", "direct_relayer"}
    /\ RelayInit
    /\ PoolInit
    /\ DirectInit
    /\ ConcInit

Next == RelayNext \/ DirectNext

Spec == Init /\ [][Next]_vars

\* One SerialPool driven by one thread.
InitPool ==
    /\ program = "serial_pool"
    /\ RelayInit
    /\ PoolInit
    /\ DirectInit
    /\ ConcInit

PoolSpec == InitPool /\ [][PoolNext]_vars

\* A SerialDelegator on its SerialPool, driven by one thread.
DelegSpec == InitPool /\ [][DelegNext]_vars

\* Two SerialDelegators that share one SerialPool, driven by one thread.
ShareSpec == InitPool /\ [][ShareNext]_vars

\* One SerialPool called by the threads of Threads with no lock.
ConcSpec == InitPool /\ [][ConcNext]_vars

\* The relay with the scheduling the code relies on: a thread that can take
\* a step takes one in the end, and so does a call in progress. No call
\* has to be made.
InitRelay ==
    /\ program = "serial_relay"
    /\ RelayInit
    /\ PoolInit
    /\ DirectInit
    /\ ConcInit

FairSpec ==
    /\ InitRelay
    /\ [][RelayNext]_vars
    /\ WF_vars(ControllerStep)
    /\ WF_vars(ReaderStep)
    /\ WF_vars(WriterStep)

(* ------------------------------- claims ------------------------------- *)
\* C1: at every moment the bytes written to the destination are a prefix of
\* the bytes read from the source, through the queue (reader_thread ->
\* queue -> writer_thread, stop() and a later start() included) and through
\* DirectRelayer.data_received: no byte is reordered, duplicated, dropped in
\* the middle or invented.
C1_WrittenIsPrefixOfRead ==
    /\ IsPrefix(wr, rd)
    /\ IsPrefix(dr_out, dr_in)

\* C1's case: a relay that was stopped and started again has forwarded
\* every byte the source delivered.
C1_Witness ==
    /\ program = "serial_relay"
    /\ stopped /\ alive
    /\ r_ret.op = "start" /\ r_ret.val = "done"
    /\ Len(rd) = MaxBytes /\ wr = rd

\* C2: every chunk the reader put into the queue is written by the writer in
\* the end, also when SerialRelay.stop() is called while chunks are in the
\* queue. (Runs in which teardown() or a second setup() is called, or in
\* which a device write raises, are left aside: the claim is about start()
\* and stop().)
C2_EveryChunkIsWritten ==
    \A k \in 1..MaxBytes :
       (Len(rd) >= k) ~> \/ Len(wr) >= k
                         \/ op \in {"teardown", "setup"}
                         \/ pc_t["writer"] = "raised"

\* C3: SerialRelay.stop() on a running relay terminates: both threads leave
\* their loops, both joins return and stop() returns, whatever the queue
\* holds when it is called.
C3_StopTerminates ==
    (op = "stop") ~> (op = "none" /\ \A r \in Roles : pc_t[r] = "none" /\ ~t_thread[r])

\* C3's case: stop() has joined the reader and turns to the writer, which is
\* blocked in queue.get() on an empty queue.
C3_Witness ==
    /\ op = "stop" /\ pc_c = "t_stop" /\ who = "writer"
    /\ pc_t["writer"] = "get" /\ queue = << >>

\* C7: when opening one of the two endpoints fails during a setup, every
\* endpoint that this setup opened is closed again (and out of the pool
\* table), no worker runs, and the pair holds no endpoint. First conjunct:
\* SerialRelay.setup; second: SerialDelegator.setup.
C7_FailedSetupHoldsNothing ==
    [][ /\ (program' = "serial_relay" /\ op' = "none"
               /\ r_ret'.op = "setup" /\ r_ret'.val = "raised" /\ r_ret'.n = calls')
            => \A r \in Roles : ~ser_open'[r] /\ ~term'[r] /\ pc_t'[r] = "none"
        /\ (ret'.seq # ret.seq /\ ret'.op = "setup" /\ ret'.how \in {"no_sr", "no_sw"})
            => /\ deleg'[ret'.d] = NewDelegator
               /\ \A e \in (Len(eps) + 1)..Len(eps') :
                     ~eps'[e].open /\ pool'[eps'[e].port.name] # e ]_vars

\* What a failed SerialDelegator.setup leaves of the endpoints it opened on
\* str port names.
FailedStrSetupRollsBack ==
    [][ (ret'.seq # ret.seq /\ ret'.op = "setup" /\ ret'.how \in {"no_sr", "no_sw"})
          => /\ deleg'[ret'.d] = NewDelegator
             /\ \A e \in (Len(eps) + 1)..Len(eps') :
                   eps'[e].port.type = "str"
                      => ~eps'[e].open /\ pool'[eps'[e].port.name] # e ]_vars

\* A setup whose source opened on a str port name and whose destination
\* failed.
StrSetupRolledBack ==
    /\ ret.op = "setup" /\ ret.how = "no_sw"
    /\ Len(eps) = 1 /\ eps[1].port.type = "str" /\ ~eps[1].open

\* C9: once SerialRelay.stop() has completed, start() without a new setup()
\* starts no worker thread.
C9_NoThreadAfterStop ==
    stopped => \A r \in Roles : pc_t[r] = "none" /\ ~t_thread[r]

\* C4: SerialPool.add for a port whose endpoint, returned by an earlier add,
\* is still open returns that same endpoint whatever the config says, opens
\* no device and leaves the table as it is.
C4_AddTwiceReturnsSameEndpoint ==
    [][ \A e \in 1..Len(eps) :
          ( /\ eps[e].open
            /\ ret'.seq # ret.seq /\ ret'.op = "add" /\ ret'.port.name = eps[e].port.name )
          => (ret'.val = e /\ pool' = pool /\ eps' = eps) ]_vars

\* C4's case: add has returned the endpoint the table already held.
C4_Witness ==
    /\ ret.op = "add" /\ ret.how = "existing"
    /\ ret.val # 0 /\ pool[ret.port.name] = ret.val /\ eps[ret.val].open
    /\ ret.port # eps[ret.val].port

\* C5: SerialPool.add and SerialPool.get for a port whose endpoint in the
\* table was closed out-of-band return None, open no device and remove the
\* port from the table.
C5_StaleEntryIsEvicted ==
    [][ \A p \in Ports :
          ( /\ pool[p.name] # 0 /\ ~eps[pool[p.name]].open
            /\ ret'.seq # ret.seq /\ ret'.op \in {"add", "get"} /\ ret'.port = p )
          => (ret'.val = 0 /\ eps' = eps /\ pool' = [pool EXCEPT ![p.name] = 0]) ]_vars

\* What add and get do with a stale entry when the port name is a str.
StaleStrEntryIsEvicted ==
    [][ \A p \in Ports :
          ( /\ pool[p.name] # 0 /\ ~eps[pool[p.name]].open
            /\ ret'.seq # ret.seq /\ ret'.port = p
            /\ ret'.op = "add" \/ (ret'.op = "get" /\ p.type = "str") )
          => (ret'.val = 0 /\ eps' = eps /\ pool' = [pool EXCEPT ![p.name] = 0]) ]_vars

\* A get that found the entry of its port closed and evicted it.
StaleEntryEvictedByGet ==
    /\ ret.op = "get" /\ ret.how = "evicted"
    /\ pool[ret.port.name] = 0
    /\ \E e \in 1..Len(eps) : eps[e].port.name = ret.port.name /\ ~eps[e].open

\* C6: however the threads that call add and delete on one SerialPool
\* interleave, once no call is in progress every open endpoint is the one
\* the table holds for its port: no port has two open endpoints and no open
\* endpoint is unknown to the table.
C6_OneOpenEndpointPerPort ==
    (\A t \in Threads : c_pc[t] = "idle")
       => \A e \in 1..Len(eps) : eps[e].open => pool[eps[e].port.name] = e

\* C8: SerialDelegator.teardown() on a pair that holds both endpoints and its
\* reader thread leaves neither port in the pool table, both endpoints closed
\* and is_running() false.
C8_TeardownReleasesBoth ==
    [][ \A d \in Delegators :
          ( /\ deleg[d].sr # 0 /\ deleg[d].sw # 0 /\ deleg[d].tr # "None"
            /\ ret'.seq # ret.seq /\ ret'.op = "teardown" /\ ret'.d = d )
          => /\ pool'[eps[deleg[d].sr].port.name] = 0
             /\ pool'[eps[deleg[d].sw].port.name] = 0
             /\ ~eps'[deleg[d].sr].open
             /\ ~eps'[deleg[d].sw].open
             /\ ~IsRunning(deleg'[d]) ]_vars

\* What teardown() does with a pair whose two port names are str.
StrTeardownReleasesBoth ==
    [][ \A d \in Delegators :
          ( /\ deleg[d].sr # 0 /\ deleg[d].sw # 0 /\ deleg[d].tr # "None"
            /\ eps[deleg[d].sr].port.type = "str"
            /\ eps[deleg[d].sw].port.type = "str"
            /\ ret'.seq # ret.seq /\ ret'.op = "teardown" /\ ret'.d = d )
          => /\ pool'[eps[deleg[d].sr].port.name] = 0
             /\ pool'[eps[deleg[d].sw].port.name] = 0
             /\ ~eps'[deleg[d].sr].open
             /\ ~eps'[deleg[d].sw].open
             /\ ~IsRunning(deleg'[d]) ]_vars

\* A pair on two different str ports that has been torn down.
StrPairTornDown ==
    /\ ret.op = "teardown" /\ ret.how = "pair"
    /\ Len(eps) = 2 /\ eps[1].port.name # eps[2].port.name
    /\ \A e \in 1..2 : ~eps[e].open /\ eps[e].port.type = "str"

\* C10: SerialPool.delete_all() leaves the table empty and every endpoint the
\* table held closed.
C10_DeleteAllClosesAll ==
    [][ (ret'.seq # ret.seq /\ ret'.op = "delete_all")
          => /\ pool' = EmptyPool
             /\ \A n \in Names : pool[n] # 0 => ~eps'[pool[n]].open ]_vars

\* C10's case: delete_all was called on a table that held two endpoints.
C10_Witness ==
    /\ ret.op = "delete_all" /\ ret.val = 2
    /\ pool = EmptyPool

\* C11: every endpoint that SerialPool.add or SerialPool.get returns, after
\* any sequence of add / get / delete / delete_all calls and out-of-band
\* closes, is open when the call returns and is the endpoint the table holds
\* for that port.
C11_ReturnedEndpointIsOpen ==
    [][ (ret'.seq # ret.seq /\ ret'.op \in {"add", "get"} /\ ret'.val # 0)
          => /\ eps'[ret'.val].open
             /\ pool'[ret'.port.name] = ret'.val ]_vars

\* C11's case: get has returned the open endpoint of a port that also has an
\* older, closed endpoint.
C11_Witness ==
    /\ ret.op = "get" /\ ret.how = "existing" /\ ret.val = 2
    /\ eps[2].open /\ ~eps[1].open /\ eps[1].port.name = ret.port.name

\* C12: SerialDelegator.setup with any d_type other than 'direct' returns
\* None and starts no reader thread; only 'direct' leads to a running relay.
C12_OnlyDirectRuns ==
    [][ (ret'.seq # ret.seq /\ ret'.op = "setup" /\ ret'.how # "nodict")
          => /\ ret'.mode # "direct"
                  => /\ ret'.val = 0
                     /\ deleg'[ret'.d].tr = "None" \/ deleg'[ret'.d].tr = deleg[ret'.d].tr
             /\ ret'.how = "running" => ret'.mode = "direct" ]_vars

\* C12 as the code has it: a d_type that is set and is not 'direct' makes
\* setup return None and start no reader thread (the delegator's thread is
\* the one it had, or none); a d_type that is missing or empty counts as
\* 'direct', and with it, as with 'direct', setup starts the relay once both
\* endpoints are acquired.
C12_OnlySetOtherModeFails ==
    [][ (ret'.seq # ret.seq /\ ret'.op = "setup" /\ ret'.how # "nodict")
          => /\ ret'.mode \notin {"None", "direct"}
                  => /\ ret'.val = 0
                     /\ ret'.how # "running"
                     /\ deleg'[ret'.d].tr = "None" \/ deleg'[ret'.d].tr = deleg[ret'.d].tr
             /\ ret'.how = "running" <=> (ret'.val = 1 /\ ret'.mode \in {"None", "direct"})
             /\ ret'.how = "running" => IsRunning(deleg'[ret'.d])
             /\ (ret'.mode \in {"None", "direct"} /\ ret'.how \notin {"no_sr", "no_sw"})
                  => ret'.how = "running" ]_vars

\* C12's case: setup with another d_type has acquired both endpoints and
\* returned None with no thread.
C12_Witness ==
    /\ ret.op = "setup" /\ ret.mode = "other" /\ ret.how = "mode" /\ ret.val = 0
    /\ deleg[ret.d].sr # 0 /\ deleg[ret.d].sw # 0 /\ deleg[ret.d].tr = "None"

\* The positions of a background thread that exists and has not ended: made
\* by start() and about to run, or somewhere in its role loop.
InLoop == {"created", "loop", "read", "put", "get", "write"}

\* C13: for each SerialTerminal, while its alive flag is set one background
\* thread is in its role loop (not none), and the flag goes from set to
\* cleared only in SerialTerminal.stop, never on a read that timed out.
C13_AliveMeansOneThread ==
    [][ \A r \in Roles :
          /\ t_alive'[r] => pc_t'[r] \in InLoop
          /\ (t_alive[r] /\ ~t_alive'[r])
                => (pc_c = "t_stop" /\ who = r /\ op \in {"stop", "teardown", "setup"}) ]_vars

\* C14: when a device read or write raises in a worker thread, the relay
\* comes to the state an explicit stop() leaves: the alive flags of both
\* workers and of the relay cleared, and no worker thread in its loop.
C14_IoErrorStopsRelay ==
    (\E r \in Roles : pc_t[r] = "raised")
       ~> (~alive /\ \A r \in Roles : ~t_alive[r] /\ pc_t[r] \notin InLoop)

\* C15: whenever SerialRelay.alive is set, both workers exist and both
\* workers' alive flags are set, also in the states another thread can see
\* while start(), stop() or teardown() is in progress. (Both workers of a
\* relay are built on self._queue, the one queue of the model.)
C15_RunningMeansBothAlive ==
    alive => \A r \in Roles : term[r] /\ t_alive[r]

\* The same with no call in progress.
IdleRunningMeansBothAlive ==
    (alive /\ op = "none") => \A r \in Roles : term[r] /\ t_alive[r]

\* C16: whenever SerialRelay.stop() or SerialRelay.teardown() has completed,
\* both workers' alive flags are cleared and the queue holds nothing, neither
\* a chunk nor a None.
C16_StoppedMeansDrained ==
    (op = "none" /\ r_ret.n = calls /\ r_ret.op \in {"stop", "teardown"}
        /\ r_ret.val = "done")
      => (queue = << >> /\ \A r \in Roles : ~t_alive[r])

\* C17: the writer loop gives the destination's write neither a None nor an
\* empty chunk. A None it pops makes it write nothing and go back to the
\* test of its alive flag, and while that flag is set the loop goes on to
\* the next get. A chunk it pops is what it writes next, once: the
\* destination is written only by the step that follows a pop of a chunk,
\* and with exactly that chunk.
C17_WriterSkipsNone ==
    [][ /\ (pc_t["writer"] = "get" /\ pc_t'["writer"] # "get")
            => /\ wr' = wr
               /\ IF Truthy(Head(queue))
                  THEN /\ pc_t'["writer"] = "write"
                       /\ t_b'["writer"] = Head(queue).bytes
                  ELSE pc_t'["writer"] = "loop"
        /\ (pc_t["writer"] = "loop" /\ pc_t'["writer"] # "loop" /\ t_alive["writer"])
            => pc_t'["writer"] = "get"
        /\ (pc_t["writer"] = "write" /\ pc_t'["writer"] # "write")
            => (t_b["writer"] # << >> /\ wr' = wr \o t_b["writer"])
        /\ wr' # wr => (pc_t["writer"] = "write" /\ pc_t'["writer"] # "write") ]_vars

\* C17's case: the writer has popped the None that the reader's stop() put
\* while the writer's own alive flag is still set, and is back at its loop
\* test with nothing written.
C17_Witness ==
    /\ op = "stop" /\ who = "reader" /\ pc_c = "t_join"
    /\ rd = << >> /\ wr = << >> /\ queue = << >>
    /\ pc_t["writer"] = "loop" /\ t_alive["writer"]

\* C18: SerialTerminal.stop() on a worker that has no thread (start() was
\* never called, or an earlier stop() has completed) returns at once and
\* changes nothing: the alive flag is cleared before and after, nothing is
\* put into the queue, the port stays open or closed as it was, and the
\* caller goes on without a join.
C18_StopWithoutThreadIsNoop ==
    [][ (pc_c = "t_stop" /\ term[who] /\ ~t_thread[who]
            /\ << pc_c, who >>' # << pc_c, who >>)
          => /\ ~t_alive[who] /\ t_alive' = t_alive
             /\ queue' = queue
             /\ ser_open' = ser_open
             /\ t_thread' = t_thread /\ pc_t' = pc_t
             /\ pc_c' \notin {"t_put", "t_join"} ]_vars

\* C18's case: teardown() after a completed stop() has called stop() on the
\* reader, which has no thread, and goes on to close its port; the queue
\* still holds what the earlier stop() left.
C18_Witness ==
    /\ op = "teardown" /\ pc_c = "t_close" /\ who = "reader"
    /\ stopped /\ ~t_thread["reader"] /\ ~t_alive["reader"]
    /\ ser_open["reader"] /\ queue # << >>

\* C19: when two SerialDelegators share a SerialPool, an endpoint that a
\* running pair uses stays open and in the pool table through every
\* teardown() and every setup() (its rollback included) of the other pair.
C19_OtherPairLeavesEndpoints ==
    [][ \A d \in Delegators :
          ( /\ IsRunning(deleg[d])
            /\ ret'.seq # ret.seq /\ ret'.op \in {"setup", "teardown"} /\ ret'.d # d )
          => \A e \in {deleg[d].sr, deleg[d].sw} :
                (eps[e].open /\ pool[eps[e].port.name] = e)
                   => (eps'[e].open /\ pool'[eps[e].port.name] = e) ]_vars

\* C20: whenever SerialDelegator.setup returns None, whatever the reason, the
\* delegator holds no endpoint (sr and sw are None) and no endpoint that this
\* setup call opened is open or in the pool table.
C20_FailedSetupReleasesAll ==
    [][ (ret'.seq # ret.seq /\ ret'.op = "setup" /\ ret'.val = 0)
          => /\ deleg'[ret'.d].sr = 0 /\ deleg'[ret'.d].sw = 0
             /\ \A e \in (Len(eps) + 1)..Len(eps') :
                   ~eps'[e].open /\ pool'[eps'[e].port.name] # e ]_vars

====
